---- MODULE Spec2Model ----
(***************************************************************************)
(* The ticket triage pipeline of the Customer Ticket Resolution Bot:       *)
(* AIEngine (keyword classifier and knowledge-base retriever),             *)
(* FreshdeskClient (the requests it sends to the helpdesk) and             *)
(* TicketProcessor (process_new_ticket, reprocess_ticket and the three     *)
(* disposition handlers) over the tickets and ticket_history tables.       *)
(*                                                                         *)
(* Strings whose characters the code inspects (substring tests, lower(),   *)
(* split()) are sequences of one-character strings.  Confidence scores     *)
(* are kept in hundredths (0.6 is 60): every value the classifier can      *)
(* produce is a multiple of 0.1 between 0.5 and 0.9, and on IEEE doubles   *)
(* 0.5 + n*0.1 capped by min() compares with 0.5 and 0.6 exactly as the    *)
(* hundredths do.  created_at / updated_at timestamps are not modelled.    *)
(***************************************************************************)
EXTENDS Integers, Sequences, FiniteSets, TLC

\* ---------------------------------------------------------------- strings

\* keywords of AIEngine.categorize_ticket and AIEngine._determine_category
kw_password == <<"p","a","s","s","w","o","r","d">>
kw_reset == <<"r","e","s","e","t">>
kw_login == <<"l","o","g","i","n">>
kw_simple == <<"s","i","m","p","l","e">>
kw_basic == <<"b","a","s","i","c">>
kw_help == <<"h","e","l","p">>
kw_billing == <<"b","i","l","l","i","n","g">>
kw_payment == <<"p","a","y","m","e","n","t">>
kw_subscription == <<"s","u","b","s","c","r","i","p","t","i","o","n">>
kw_account == <<"a","c","c","o","u","n","t">>
kw_settings == <<"s","e","t","t","i","n","g","s">>
kw_error == <<"e","r","r","o","r">>
kw_bug == <<"b","u","g">>
kw_crash == <<"c","r","a","s","h">>
kw_system == <<"s","y","s","t","e","m">>
kw_technical == <<"t","e","c","h","n","i","c","a","l">>
kw_critical == <<"c","r","i","t","i","c","a","l">>
kw_forgot == <<"f","o","r","g","o","t">>
kw_invoice == <<"i","n","v","o","i","c","e">>
kw_charge == <<"c","h","a","r","g","e">>
kw_profile == <<"p","r","o","f","i","l","e">>
kw_user == <<"u","s","e","r">>
kw_support == <<"s","u","p","p","o","r","t">>
kw_question == <<"q","u","e","s","t","i","o","n">>
kw_issue == <<"i","s","s","u","e">>

\* ticket texts and knowledge documents used as inputs
txt_forgot_password == <<"f","o","r","g","o","t"," ","p","a","s","s","w","o","r","d">>
txt_cant_login == <<"c","a","n","'","t"," ","l","o","g","i","n">>
txt_system_crash_critical == <<"s","y","s","t","e","m"," ","c","r","a","s","h"," ","c","r","i","t","i","c","a","l">>
txt_urgent_production_down == <<"u","r","g","e","n","t"," ","p","r","o","d","u","c","t","i","o","n"," ","d","o","w","n">>
txt_Invoice == <<"I","n","v","o","i","c","e">>
txt_payment_twice == <<"p","a","y","m","e","n","t"," ","t","w","i","c","e">>
txt_Help == <<"H","e","l","p">>
txt_empty == <<>>
txt_hello == <<"h","e","l","l","o">>
txt_there == <<"t","h","e","r","e">>
doc_reset == <<"r","e","s","e","t"," ","y","o","u","r"," ","p","a","s","s","w","o","r","d"," ","h","e","r","e">>
doc_billing == <<"b","i","l","l","i","n","g"," ","i","n","v","o","i","c","e"," ","d","e","t","a","i","l","s">>

\* a knowledge document longer than the 500 characters of an excerpt
doc_long == <<"r","e","f","u","n","d"," ","p","o","l","i","c","y",":"," ","r","e","f","u","n","d","s"," ","a","r","e"," ","i","s","s","u","e","d"," ","w","i","t","h","i","n"," ","t","e","n"," ","d","a","y","s","."," ","r","e","f","u","n","d"," ","p","o","l","i","c","y",":"," ","r","e","f","u","n","d","s"," ","a","r","e"," ","i","s","s","u","e","d"," ","w","i","t","h","i","n"," ","t","e","n"," ","d","a","y","s","."," ","r","e","f","u","n","d"," ","p","o","l","i","c","y",":"," ","r","e","f","u","n","d","s"," ","a","r","e"," ","i","s","s","u","e","d"," ","w","i","t","h","i","n"," ","t","e","n"," ","d","a","y","s","."," ","r","e","f","u","n","d"," ","p","o","l","i","c","y",":"," ","r","e","f","u","n","d","s"," ","a","r","e"," ","i","s","s","u","e","d"," ","w","i","t","h","i","n"," ","t","e","n"," ","d","a","y","s","."," ","r","e","f","u","n","d"," ","p","o","l","i","c","y",":"," ","r","e","f","u","n","d","s"," ","a","r","e"," ","i","s","s","u","e","d"," ","w","i","t","h","i","n"," ","t","e","n"," ","d","a","y","s","."," ","r","e","f","u","n","d"," ","p","o","l","i","c","y",":"," ","r","e","f","u","n","d","s"," ","a","r","e"," ","i","s","s","u","e","d"," ","w","i","t","h","i","n"," ","t","e","n"," ","d","a","y","s","."," ","r","e","f","u","n","d"," ","p","o","l","i","c","y",":"," ","r","e","f","u","n","d","s"," ","a","r","e"," ","i","s","s","u","e","d"," ","w","i","t","h","i","n"," ","t","e","n"," ","d","a","y","s","."," ","r","e","f","u","n","d"," ","p","o","l","i","c","y",":"," ","r","e","f","u","n","d","s"," ","a","r","e"," ","i","s","s","u","e","d"," ","w","i","t","h","i","n"," ","t","e","n"," ","d","a","y","s","."," ","r","e","f","u","n","d"," ","p","o","l","i","c","y",":"," ","r","e","f","u","n","d","s"," ","a","r","e"," ","i","s","s","u","e","d"," ","w","i","t","h","i","n"," ","t","e","n"," ","d","a","y","s","."," ","r","e","f","u","n","d"," ","p","o","l","i","c","y",":"," ","r","e","f","u","n","d","s"," ","a","r","e"," ","i","s","s","u","e","d"," ","w","i","t","h","i","n"," ","t","e","n"," ","d","a","y","s","."," ","r","e","f","u","n","d"," ","p","o","l">>

\* file names in the docs folder
file_reset_txt == <<"r","e","s","e","t",".","t","x","t">>
file_billing_txt == <<"b","i","l","l","i","n","g",".","t","x","t">>
file_refund_txt == <<"r","e","f","u","n","d",".","t","x","t">>
file_notes_md == <<"n","o","t","e","s",".","m","d">>
ext_txt == <<".","t","x","t">>

\* queries put to get_rag_response
q_empty == <<>>
q_blank == <<" "," "," ">>
q_how_do_I_reset_password == <<"h","o","w"," ","d","o"," ","I"," ","r","e","s","e","t"," ","p","a","s","s","w","o","r","d">>
q_billing == <<"b","i","l","l","i","n","g">>
q_RESET == <<"R","E","S","E","T">>
q_reset_billing == <<"r","e","s","e","t"," ","b","i","l","l","i","n","g">>
q_reset_reset_billing == <<"r","e","s","e","t"," ","r","e","s","e","t"," ","b","i","l","l","i","n","g">>
q_details_here == <<"d","e","t","a","i","l","s"," ","h","e","r","e">>
q_refund == <<"r","e","f","u","n","d">>
q_zebra == <<"z","e","b","r","a">>
q_ten_days_invoice == <<"t","e","n"," ","d","a","y","s"," ","i","n","v","o","i","c","e">>
q_tab_password == <<"\t","p","a","s","s","w","o","r","d"," ">>

\* words of the texts put to categorize_ticket
w_Debugging == <<"D","e","b","u","g","g","i","n","g">>
w_passwords == <<"p","a","s","s","w","o","r","d","s">>
w_hello == <<"h","e","l","l","o">>

\* str.lower() on the letters that occur in the inputs
UpperToLower ==
  [c \in {"A","B","C","D","E","F","G","H","I","J","K","L","M","N","O","P","Q","R","S","T","U","V","W","X","Y","Z"} |->
    CASE c = "A" -> "a"
      [] c = "B" -> "b"
      [] c = "C" -> "c"
      [] c = "D" -> "d"
      [] c = "E" -> "e"
      [] c = "F" -> "f"
      [] c = "G" -> "g"
      [] c = "H" -> "h"
      [] c = "I" -> "i"
      [] c = "J" -> "j"
      [] c = "K" -> "k"
      [] c = "L" -> "l"
      [] c = "M" -> "m"
      [] c = "N" -> "n"
      [] c = "O" -> "o"
      [] c = "P" -> "p"
      [] c = "Q" -> "q"
      [] c = "R" -> "r"
      [] c = "S" -> "s"
      [] c = "T" -> "t"
      [] c = "U" -> "u"
      [] c = "V" -> "v"
      [] c = "W" -> "w"
      [] c = "X" -> "x"
      [] c = "Y" -> "y"
      [] c = "Z" -> "z"]

lower(s) == [i \in 1..Len(s) |-> IF s[i] \in DOMAIN UpperToLower THEN UpperToLower[s[i]] ELSE s[i]]

\* Python `k in s` on strings: k occurs in s as a contiguous substring
contains(s, k) == \E i \in 1..(Len(s) - Len(k) + 1) : SubSeq(s, i, i + Len(k) - 1) = k

Whitespace == {" ", "\n", "\t"}

\* Python str.split(): the maximal runs of non-whitespace characters, in order
RECURSIVE split_from(_, _, _)
split_from(s, i, cur) ==
  IF i > Len(s) THEN (IF cur = <<>> THEN <<>> ELSE <<cur>>)
  ELSE IF s[i] \in Whitespace
       THEN (IF cur = <<>> THEN <<>> ELSE <<cur>>) \o split_from(s, i + 1, <<>>)
       ELSE split_from(s, i + 1, Append(cur, s[i]))

split(s) == split_from(s, 1, <<>>)

\* a count of the occurrences of the keywords in the text instead of the keywords present
RECURSIVE occurrences(_, _)
occurrences(text, keyword) ==
  IF Len(text) < Len(keyword) THEN 0
  ELSE (IF SubSeq(text, 1, Len(keyword)) = keyword THEN 1 ELSE 0) + occurrences(Tail(text), keyword)

RECURSIVE count_occurrences(_, _)
count_occurrences(keywords, text) ==
  IF keywords = <<>> THEN 0
  ELSE occurrences(text, Head(keywords)) + count_occurrences(Tail(keywords), text)

\* sum(1 for x in xs if P(x)) over a list
RECURSIVE count_matches(_, _)
count_matches(keywords, text) ==
  IF keywords = <<>> THEN 0
  ELSE (IF contains(text, Head(keywords)) THEN 1 ELSE 0) + count_matches(Tail(keywords), text)

Min(a, b) == IF a < b THEN a ELSE b

\* a Python None, kept a record so that it compares with records
None == [none |-> TRUE]

\* ------------------------------------------------------------ AIEngine
tier_1_keywords == <<kw_password, kw_reset, kw_login, kw_simple, kw_basic, kw_help>>
tier_2_keywords == <<kw_billing, kw_payment, kw_subscription, kw_account, kw_settings>>
complex_keywords == <<kw_error, kw_bug, kw_crash, kw_system, kw_technical, kw_critical>>

\* a mapping that lists billing before password_reset
categories_billing_first ==
  << [category |-> "billing",        keywords |-> <<kw_billing, kw_payment, kw_invoice, kw_charge, kw_subscription>>],
     [category |-> "password_reset", keywords |-> <<kw_password, kw_reset, kw_forgot, kw_login, kw_account>>],
     [category |-> "technical",      keywords |-> <<kw_error, kw_bug, kw_crash, kw_technical, kw_system>>],
     [category |-> "account",        keywords |-> <<kw_account, kw_profile, kw_settings, kw_user>>],
     [category |-> "general",        keywords |-> <<kw_help, kw_support, kw_question, kw_issue>>] >>

\* the ordered category -> keywords mapping of _determine_category
categories ==
  << [category |-> "password_reset", keywords |-> <<kw_password, kw_reset, kw_forgot, kw_login, kw_account>>],
     [category |-> "billing",        keywords |-> <<kw_billing, kw_payment, kw_invoice, kw_charge, kw_subscription>>],
     [category |-> "technical",      keywords |-> <<kw_error, kw_bug, kw_crash, kw_technical, kw_system>>],
     [category |-> "account",        keywords |-> <<kw_account, kw_profile, kw_settings, kw_user>>],
     [category |-> "general",        keywords |-> <<kw_help, kw_support, kw_question, kw_issue>>] >>

RECURSIVE first_category(_, _)
first_category(cats, text_lower) ==
  IF cats = <<>> THEN "general"
  ELSE IF count_matches(Head(cats).keywords, text_lower) > 0 THEN Head(cats).category
       ELSE first_category(Tail(cats), text_lower)

\* a category mapping that knows the default only
_determine_category_general(text) == "general"

_determine_category(text) == first_category(categories, lower(text))

\* categorize_ticket without the caps on the confidence
categorize_ticket_uncapped(subject, description) ==
  LET ticket_text   == lower(subject \o <<" ">> \o description)
      tier_1_score  == count_matches(tier_1_keywords, ticket_text)
      tier_2_score  == count_matches(tier_2_keywords, ticket_text)
      complex_score == count_matches(complex_keywords, ticket_text)
      category      == _determine_category(ticket_text)
  IN  IF complex_score > 0
        THEN [tier |-> "complex", confidence |-> 50 + complex_score * 10, category |-> category]
      ELSE IF tier_2_score > 0
        THEN [tier |-> "tier_2", confidence |-> 60 + tier_2_score * 10, category |-> category]
      ELSE IF tier_1_score > 0
        THEN [tier |-> "tier_1", confidence |-> 50 + tier_1_score * 10, category |-> category]
      ELSE [tier |-> "complex", confidence |-> 50, category |-> category]

categorize_ticket(subject, description) ==
  LET ticket_text   == lower(subject \o <<" ">> \o description)
      tier_1_score  == count_matches(tier_1_keywords, ticket_text)
      tier_2_score  == count_matches(tier_2_keywords, ticket_text)
      complex_score == count_matches(complex_keywords, ticket_text)
      category      == _determine_category(ticket_text)
  IN  IF complex_score > 0
        THEN [tier |-> "complex", confidence |-> Min(90, 50 + complex_score * 10), category |-> category]
      ELSE IF tier_2_score > 0
        THEN [tier |-> "tier_2", confidence |-> Min(80, 60 + tier_2_score * 10), category |-> category]
      ELSE IF tier_1_score > 0
        THEN [tier |-> "tier_1", confidence |-> Min(70, 50 + tier_1_score * 10), category |-> category]
      ELSE [tier |-> "complex", confidence |-> 50, category |-> category]

\* ------------------------------------------------- model bounds and inputs
\* number of process_new_ticket / reprocess_ticket calls in a behaviour
MaxRuns == 3

\* helpdesk ticket ids (freshdesk ids) that occur in webhook events
TicketIds == {101, 102}

\* the server processes that share the tickets database
Workers == {1, 2}

\* the fixed documents of the docs folder
Docs == <<doc_reset, doc_billing>>

\* ticket events: id, requester_id and, when the sender supplied them, subject,
\* description and priority
Payloads ==
  UNION { { [id |-> i, subject |-> txt_forgot_password, description |-> txt_cant_login,
             requester_id |-> 12345, priority |-> 1],
            [id |-> i, subject |-> txt_system_crash_critical, description |-> txt_urgent_production_down,
             requester_id |-> 12345, priority |-> 4],
            [id |-> i, subject |-> txt_Invoice, description |-> txt_payment_twice,
             requester_id |-> 12345, priority |-> 2],
            [id |-> i, subject |-> txt_Help,
             requester_id |-> 12345, priority |-> 1],
            [id |-> i, description |-> txt_there,
             requester_id |-> 12345] } : i \in TicketIds }

\* TicketValidator.validate_ticket_data, the required-fields test: a field is missing
\* when the key is absent or its value is empty; the validator then raises
\* InvalidTicketDataError
missing_required(data) ==
  \E field \in {"subject", "description"} : field \notin DOMAIN data \/ data[field] = <<>>

\* dict.get(key, default)
get(d, key, default) == IF key \in DOMAIN d THEN d[key] ELSE default

\* ------------------------------------------------------------------ state
VARIABLES
  docs_folder,       \* the "docs" folder at start-up: whether it exists and its listing
  knowledge_texts,   \* AIEngine.knowledge_texts: the loaded documents, in load order
  embedding_model,   \* AIEngine.embedding_model is not None
  embedding_backend, \* how the loaded model behaves on a query ("none" without a model)
  tickets,           \* table "tickets": row i has primary key id = i
  ticket_history,    \* table "ticket_history", in insertion order
  requests,          \* the POST / PUT requests FreshdeskClient._make_request has sent, with their outcome
  nruns,             \* number of process_new_ticket / reprocess_ticket calls started
  last_write,        \* number of the call whose _store_ticket committed (or tried to) last
  pc,                \* per worker: position inside process_new_ticket
  run,               \* per worker: number of the call it is executing
  entry,             \* per worker: the entry point called, process_new_ticket or reprocess_ticket
  ticket_data,       \* per worker: the payload being processed
  ai_result,         \* per worker: result of AIEngine.process_ticket
  ticket,            \* per worker: primary key of the Ticket returned by _store_ticket (0: none)
  todo,              \* per worker: handlers process_new_ticket still has to call
  pending,           \* per worker: requests the current handler has not yet sent
  handled,           \* per worker: handlers that ran to their end in this call
  logged,            \* per worker: ticket_history rows this call has inserted
  result,            \* per worker: the returned dict (None while running)
  query,             \* argument of a direct call of get_rag_response
  answer,            \* outcome of that call: the branch that answered and the text (None before the call)
  ticket_texts,      \* arguments [subject, description] of direct calls of categorize_ticket
  classified,        \* what these calls returned (<<>> before the calls)
  webhook_secret,    \* settings.FRESHDESK_WEBHOOK_SECRET ("" when not set)
  webhook_request,   \* the last request POSTed to /webhook/freshdesk (None before the first)
  webhook_response,  \* what the endpoint answered to it
  background_tasks   \* the tickets handed to background_tasks.add_task and not yet started

\* the engine, with the arguments and results of the calls made on it directly
engine == <<docs_folder, knowledge_texts, embedding_model, embedding_backend, query, answer, ticket_texts, classified>>
web    == <<webhook_secret, webhook_request, webhook_response, background_tasks>>
db     == <<tickets, ticket_history>>
locals == <<pc, run, entry, ticket_data, ai_result, ticket, todo, pending, handled, logged, result>>
vars   == <<docs_folder, knowledge_texts, embedding_model, embedding_backend, tickets, ticket_history, requests, nruns,
           last_write, pc, run, entry, ticket_data, ai_result, ticket, todo, pending, handled, logged,
           result, query, answer, ticket_texts, classified,
           webhook_secret, webhook_request, webhook_response, background_tasks>>

\* ------------------------------------------------- AIEngine: retrieval
MsgUnavailable == [msg |-> "I don't have access to the knowledge base at the moment. Please contact human support."]
MsgNotFound    == [msg |-> "I couldn't find specific information about that. Please contact human support for assistance."]

\* doc_content[:500]
prefix(s, n) == SubSeq(s, 1, Min(n, Len(s)))

\* a score that counts the query words that are whole words of the document
RECURSIVE count_whole_words(_, _)
count_whole_words(words, doc_lower) ==
  IF words = <<>> THEN 0
  ELSE (IF \E k \in 1..Len(split(doc_lower)) : split(doc_lower)[k] = Head(words) THEN 1 ELSE 0)
       + count_whole_words(Tail(words), doc_lower)

\* sum(1 for word in query_words if word in doc_lower)
RECURSIVE count_words(_, _)
count_words(words, doc_lower) ==
  IF words = <<>> THEN 0
  ELSE (IF contains(doc_lower, Head(words)) THEN 1 ELSE 0) + count_words(Tail(words), doc_lower)

\* the loop with `score >= best_score`: the last of the best documents is kept
RECURSIVE best_of_last(_, _, _)
best_of_last(docs, query_words, best) ==
  IF docs = <<>> THEN best
  ELSE LET score == count_words(query_words, lower(Head(docs)))
       IN  best_of_last(Tail(docs), query_words,
                        IF score >= best.score
                          THEN [found |-> TRUE, match |-> Head(docs), score |-> score]
                          ELSE best)

\* the loop of _fallback_rag_response: best_match (found is FALSE while it is
\* None) and best_score after the documents docs
RECURSIVE best_of(_, _, _)
best_of(docs, query_words, best) ==
  IF docs = <<>> THEN best
  ELSE LET score == count_words(query_words, lower(Head(docs)))
       IN  best_of(Tail(docs), query_words,
                   IF score > best.score
                     THEN [found |-> TRUE, match |-> Head(docs), score |-> score]
                     ELSE best)

\* a fallback that never finds a document
_fallback_rag_response_fixed(q) == MsgNotFound

_fallback_rag_response(q) ==
  LET query_words == split(lower(q))
      best        == best_of(knowledge_texts, query_words, [found |-> FALSE, match |-> <<>>, score |-> 0])
  IN  IF best.found /\ best.match # <<>> /\ best.score > 0
        THEN [msg |-> "Based on our knowledge base:", excerpt |-> prefix(best.match, 500)]
        ELSE MsgNotFound

\* the dimension of the vectors of the configured model all-MiniLM-L6-v2
EmbeddingDim == 384

\* how a loaded model behaves on a query: encoding raises, or the similarities follow
\* the word overlap, or every document is equally far from every query
Backends == {"raises", "overlap", "flat"}

\* cosine_similarity(query_embedding, knowledge_embeddings)[0], in hundredths
cosine_similarity(q, docs) ==
  [k \in 1..Len(docs) |->
     IF embedding_backend = "overlap"
       THEN Min(100, 35 * count_words(split(lower(q)), lower(docs[k])))
       ELSE 20]

\* np.argmax: the first index of the maximum
argmax(xs) == CHOOSE k \in 1..Len(xs) : (\A l \in 1..Len(xs) : xs[l] <= xs[k]) /\ (\A l \in 1..(k - 1) : xs[l] < xs[k])

\* str.split('\n'): the pieces between the newlines, empty ones included
RECURSIVE split_lines(_, _)
split_lines(s, cur) ==
  IF s = <<>> THEN <<cur>>
  ELSE IF Head(s) = "\n" THEN <<cur>> \o split_lines(Tail(s), <<>>)
  ELSE split_lines(Tail(s), Append(cur, Head(s)))

\* str.strip()
RECURSIVE strip(_)
strip(s) ==
  IF s = <<>> THEN s
  ELSE IF Head(s) \in Whitespace THEN strip(Tail(s))
  ELSE IF s[Len(s)] \in Whitespace THEN strip(SubSeq(s, 1, Len(s) - 1))
  ELSE s

RECURSIVE strip_all(_)
strip_all(lines) == IF lines = <<>> THEN <<>> ELSE <<strip(Head(lines))>> \o strip_all(Tail(lines))

_generate_response_from_doc(q, doc_content) ==
  LET query_words    == split(lower(q))
      relevant_lines == strip_all(SelectSeq(split_lines(doc_content, <<>>),
                                            LAMBDA line : count_words(query_words, lower(line)) > 0))
  IN  IF relevant_lines # <<>>
        THEN [msg |-> "Based on our knowledge base:", lines |-> prefix(relevant_lines, 5)]
        ELSE [msg |-> "Here's what I found in our knowledge base:", excerpt |-> prefix(doc_content, 500)]

MsgNothingRelevant == [msg |-> "I couldn't find specific information about that in our knowledge base. Please contact human support for assistance."]

\* `not self.knowledge_embeddings` raises: knowledge_embeddings is the tensor that
\* encode(knowledge_texts, convert_to_tensor=True) returned at load time, one row of
\* EmbeddingDim numbers per document, and the truth value of a tensor of more than one
\* element is a RuntimeError
truth_value_raises(docs) == Len(docs) * EmbeddingDim > 1

\* lines 170-191 of get_rag_response: the answer by similarity
by_similarity(q) ==
  IF embedding_backend = "raises"
    THEN [raised |-> TRUE, route |-> "embedding", value |-> None]
  ELSE LET similarities     == cosine_similarity(q, knowledge_texts)
           most_similar_idx == argmax(similarities)
       IN  IF similarities[most_similar_idx] > 30
             THEN [raised |-> FALSE, route |-> "embedding",
                   value |-> _generate_response_from_doc(q, knowledge_texts[most_similar_idx])]
             ELSE [raised |-> FALSE, route |-> "embedding", value |-> MsgNothingRelevant]

\* a try block that does not test whether documents are loaded
rag_try_no_store_test(q) ==
  IF ~embedding_model \/ knowledge_texts = <<>>
    THEN [raised |-> FALSE, route |-> "fallback", value |-> _fallback_rag_response(q)]
  ELSE [raised |-> TRUE, route |-> "embedding_test", value |-> None]

\* The try block of get_rag_response: what it returns, or that it raised.
\* Without a model knowledge_embeddings is still the empty list and `not
\* self.embedding_model` already decides the test of line 167.
rag_try(q) ==
  IF knowledge_texts = <<>>
    THEN [raised |-> FALSE, route |-> "unavailable", value |-> MsgUnavailable]
  ELSE IF ~embedding_model
    THEN [raised |-> FALSE, route |-> "fallback", value |-> _fallback_rag_response(q)]
  ELSE IF truth_value_raises(knowledge_texts)
    THEN [raised |-> TRUE, route |-> "embedding_test", value |-> None]
  ELSE by_similarity(q)

\* get_rag_response without its except clause
rag_call_no_except(q) == rag_try(q)

\* get_rag_response: the try block, and _fallback_rag_response in its except clause
rag_call(q) ==
  LET r == rag_try(q)
  IN  IF r.raised
        THEN [raised |-> FALSE, route |-> "except_fallback", value |-> _fallback_rag_response(q)]
        ELSE r

get_rag_response(q) == rag_call(q).value

\* str.endswith
endswith(s, suffix) ==
  Len(s) >= Len(suffix) /\ SubSeq(s, Len(s) - Len(suffix) + 1, Len(s)) = suffix

\* the folder "docs" does not exist
AbsentFolder == [exists |-> FALSE, files |-> <<>>]

\* the loop of _load_knowledge_base over os.listdir: the contents of the .txt files, in
\* the order of the listing
RECURSIVE load_texts(_)
load_texts(files) ==
  IF files = <<>> THEN <<>>
  ELSE (IF endswith(Head(files).name, ext_txt) THEN <<Head(files).content>> ELSE <<>>)
       \o load_texts(Tail(files))

\* _load_knowledge_base: knowledge_texts after start-up
_load_knowledge_base(folder) == IF folder.exists THEN load_texts(folder.files) ELSE <<>>

\* the docs folder of the deployment the ticket processor runs in
DocsFolder ==
  [exists |-> TRUE,
   files  |-> << [name |-> file_reset_txt, content |-> doc_reset],
                 [name |-> file_billing_txt, content |-> doc_billing] >>]

\* --------------------------------------------- AIEngine.process_ticket
EscalationReason == "Complex issue requiring human intervention"

\* variant: the auto-resolve threshold written with >= instead of >
process_ticket_ge(subject, description) ==
  LET c          == categorize_ticket(subject, description)
      auto       == (c.tier = "tier_1") /\ (c.confidence >= 60)
      escalation == (c.tier = "complex") \/ (c.confidence < 50)
  IN  [tier              |-> c.tier,
       confidence        |-> c.confidence,
       category          |-> c.category,
       auto_resolvable   |-> auto,
       escalation_needed |-> escalation,
       escalation_reason |-> IF escalation THEN EscalationReason ELSE "None",
       response          |-> get_rag_response(subject \o <<" ">> \o description)]

\* classify, compute the two disposition flags, retrieve the response
process_ticket(subject, description) ==
  LET c          == categorize_ticket(subject, description)
      auto       == (c.tier = "tier_1") /\ (c.confidence > 60)
      escalation == (c.tier = "complex") \/ (c.confidence < 50)
  IN  [tier              |-> c.tier,
       confidence        |-> c.confidence,
       category          |-> c.category,
       auto_resolvable   |-> auto,
       escalation_needed |-> escalation,
       escalation_reason |-> IF escalation THEN EscalationReason ELSE "None",
       response          |-> get_rag_response(subject \o <<" ">> \o description)]

\* ------------------------------------------------------ FreshdeskClient
\* Each client method is the sequence of requests it passes to _make_request.
StatusPending  == 3
StatusResolved == 5
PriorityHigh   == 3

add_note_to_ticket(ticket_id, note, is_private) ==
  << [method |-> "POST", endpoint |-> "notes", ticket_id |-> ticket_id,
      data |-> [body |-> note, private |-> is_private]] >>

update_ticket_status(ticket_id, status) ==
  << [method |-> "PUT", endpoint |-> "ticket", ticket_id |-> ticket_id,
      data |-> [status |-> status]] >>

resolve_ticket(ticket_id, resolution_note) ==
  << [method |-> "PUT", endpoint |-> "ticket", ticket_id |-> ticket_id,
      data |-> [status |-> StatusResolved, resolution |-> resolution_note]] >>

\* variant: the priority is raised before the escalation note is posted
escalate_ticket_priority_first(ticket_id, escalation_reason) ==
  << [method |-> "PUT", endpoint |-> "ticket", ticket_id |-> ticket_id,
      data |-> [priority |-> PriorityHigh]] >>
  \o add_note_to_ticket(ticket_id,
                        [fmt |-> "ESCALATED TO HUMAN AGENT", reason |-> escalation_reason,
                         text |-> "This ticket requires human intervention."],
                        TRUE)

escalate_ticket(ticket_id, escalation_reason) ==
  add_note_to_ticket(ticket_id,
                     [fmt |-> "ESCALATED TO HUMAN AGENT", reason |-> escalation_reason,
                      text |-> "This ticket requires human intervention."],
                     TRUE)
  \o << [method |-> "PUT", endpoint |-> "ticket", ticket_id |-> ticket_id,
         data |-> [priority |-> PriorityHigh]] >>

auto_resolve_ticket(ticket_id, bot_response) ==
  add_note_to_ticket(ticket_id,
                     [fmt |-> "AUTOMATED RESPONSE", bot_response |-> bot_response,
                      text |-> "This ticket has been automatically resolved by our AI assistant."],
                     FALSE)
  \o resolve_ticket(ticket_id, "Resolved by AI assistant")

\* ------------------------------------------------------ TicketProcessor
\* variant: the tier-2 handler sets the helpdesk status before it posts the note
handler_requests_status_first(handler, ticket_id, ai) ==
  CASE handler = "_handle_auto_resolvable_ticket" ->
         add_note_to_ticket(ticket_id, ai.response, FALSE)
         \o auto_resolve_ticket(ticket_id, ai.response)
    [] handler = "_handle_escalation_ticket" ->
         add_note_to_ticket(ticket_id,
                            [fmt |-> "ESCALATED TO HUMAN AGENT", reason |-> ai.escalation_reason,
                             tier |-> ai.tier, confidence |-> ai.confidence, response |-> ai.response],
                            TRUE)
         \o escalate_ticket(ticket_id, ai.escalation_reason)
    [] handler = "_handle_tier_2_ticket" ->
         update_ticket_status(ticket_id, StatusPending)
         \o add_note_to_ticket(ticket_id, ai.response, FALSE)

\* the client calls of each handler, in program order
handler_requests(handler, ticket_id, ai) ==
  CASE handler = "_handle_auto_resolvable_ticket" ->
         add_note_to_ticket(ticket_id, ai.response, FALSE)
         \o auto_resolve_ticket(ticket_id, ai.response)
    [] handler = "_handle_escalation_ticket" ->
         add_note_to_ticket(ticket_id,
                            [fmt |-> "ESCALATED TO HUMAN AGENT", reason |-> ai.escalation_reason,
                             tier |-> ai.tier, confidence |-> ai.confidence, response |-> ai.response],
                            TRUE)
         \o escalate_ticket(ticket_id, ai.escalation_reason)
    [] handler = "_handle_tier_2_ticket" ->
         add_note_to_ticket(ticket_id, ai.response, FALSE)
         \o update_ticket_status(ticket_id, StatusPending)

\* variant: the second branch written as a new `if` instead of `elif`
dispatch_if_if(ai) ==
  (IF ai.auto_resolvable THEN <<"_handle_auto_resolvable_ticket">> ELSE <<>>)
  \o (IF ai.escalation_needed THEN <<"_handle_escalation_ticket">> ELSE <<"_handle_tier_2_ticket">>)

\* the if / elif / else of process_new_ticket: the handlers it calls, in order
dispatch(ai) ==
  IF ai.auto_resolvable THEN <<"_handle_auto_resolvable_ticket">>
  ELSE IF ai.escalation_needed THEN <<"_handle_escalation_ticket">>
  ELSE <<"_handle_tier_2_ticket">>

\* self.db.query(Ticket).filter(Ticket.freshdesk_id == ticket_id).first()
\* as the primary key of the row found, 0 when there is none
query_first(rows, ticket_id) ==
  IF \E i \in 1..Len(rows) : rows[i].freshdesk_id = ticket_id
    THEN CHOOSE i \in 1..Len(rows) :
           /\ rows[i].freshdesk_id = ticket_id
           /\ \A j \in 1..(i - 1) : rows[j].freshdesk_id # ticket_id
    ELSE 0

\* the Ticket(...) object _store_ticket builds; status and assigned_to take the column defaults
new_ticket(id, freshdesk_id, subject, description, customer_email, priority, ai) ==
  [id                |-> id,
   freshdesk_id      |-> freshdesk_id,
   subject           |-> subject,
   description       |-> description,
   customer_email    |-> customer_email,
   priority          |-> priority,
   status            |-> "open",
   category          |-> ai.category,
   tier              |-> ai.tier,
   assigned_to       |-> "None",
   confidence_score  |-> ai.confidence,
   auto_resolved     |-> ai.auto_resolvable,
   escalation_reason |-> ai.escalation_reason,
   bot_response      |-> ai.response]

\* a tickets table without the unique index on freshdesk_id
unique_violation_never(rows, freshdesk_id) == FALSE

\* the unique index on tickets.freshdesk_id rejects the INSERT
unique_violation(rows, freshdesk_id) == \E i \in 1..Len(rows) : rows[i].freshdesk_id = freshdesk_id

\* no direct call on the engine is in progress
NoDirectCalls ==
  /\ query = <<>>
  /\ answer = None
  /\ ticket_texts = <<>>
  /\ classified = <<>>

\* no request has reached the webhook endpoint
NoWebhookCalls ==
  /\ webhook_request = None
  /\ webhook_response = None
  /\ background_tasks = <<>>

\* the ticket processor after construction, with empty tables
InitProcessor ==
  /\ tickets = <<>>
  /\ ticket_history = <<>>
  /\ requests = <<>>
  /\ nruns = 0
  /\ last_write = 0
  /\ pc = [w \in Workers |-> "idle"]
  /\ run = [w \in Workers |-> 0]
  /\ entry = [w \in Workers |-> "none"]
  /\ ticket_data = [w \in Workers |-> None]
  /\ ai_result = [w \in Workers |-> None]
  /\ ticket = [w \in Workers |-> 0]
  /\ todo = [w \in Workers |-> <<>>]
  /\ pending = [w \in Workers |-> <<>>]
  /\ handled = [w \in Workers |-> <<>>]
  /\ logged = [w \in Workers |-> 0]
  /\ result = [w \in Workers |-> None]

Init ==
  /\ docs_folder = DocsFolder
  /\ knowledge_texts = _load_knowledge_base(docs_folder)
  /\ embedding_model = FALSE
  /\ embedding_backend = "none"
  /\ webhook_secret = ""
  /\ NoWebhookCalls
  /\ NoDirectCalls
  /\ InitProcessor

\* entry of process_new_ticket up to the call of _store_ticket (lines 26-36)
enter_process_new_ticket(w, name, data) ==
  /\ nruns' = nruns + 1
  /\ run' = [run EXCEPT ![w] = nruns + 1]
  /\ entry' = [entry EXCEPT ![w] = name]
  /\ ticket_data' = [ticket_data EXCEPT ![w] = data]
  /\ ai_result' = [ai_result EXCEPT ![w] =
                     process_ticket(get(data, "subject", <<>>), get(data, "description", <<>>))]
  /\ ticket' = [ticket EXCEPT ![w] = 0]
  /\ todo' = [todo EXCEPT ![w] = <<>>]
  /\ pending' = [pending EXCEPT ![w] = <<>>]
  /\ handled' = [handled EXCEPT ![w] = <<>>]
  /\ logged' = [logged EXCEPT ![w] = 0]
  /\ result' = [result EXCEPT ![w] = None]
  /\ pc' = [pc EXCEPT ![w] = "store"]

\* a webhook event or test request is handed to process_new_ticket
process_new_ticket(w, data) ==
  /\ pc[w] \in {"idle", "done"}
  /\ nruns < MaxRuns
  /\ enter_process_new_ticket(w, "process_new_ticket", data)
  /\ UNCHANGED <<web, engine, db, requests, last_write>>

\* reprocess_ticket without the test of what get_ticket returned: process_new_ticket is
\* called with None, ticket_data.get raises AttributeError and its except clause returns
reprocess_ticket_unchecked(w, ticket_id, fetched) ==
  /\ pc[w] \in {"idle", "done"}
  /\ nruns < MaxRuns
  /\ (IF fetched = None THEN TRUE ELSE fetched.id = ticket_id)
  /\ IF fetched = None
       THEN /\ nruns' = nruns + 1
            /\ run' = [run EXCEPT ![w] = nruns + 1]
            /\ entry' = [entry EXCEPT ![w] = "reprocess_ticket"]
            /\ ticket_data' = [ticket_data EXCEPT ![w] = None]
            /\ ai_result' = [ai_result EXCEPT ![w] = None]
            /\ ticket' = [ticket EXCEPT ![w] = 0]
            /\ todo' = [todo EXCEPT ![w] = <<>>]
            /\ pending' = [pending EXCEPT ![w] = <<>>]
            /\ handled' = [handled EXCEPT ![w] = <<>>]
            /\ logged' = [logged EXCEPT ![w] = 0]
            /\ result' = [result EXCEPT ![w] = [success |-> FALSE, error |-> "AttributeError"]]
            /\ pc' = [pc EXCEPT ![w] = "done"]
       ELSE enter_process_new_ticket(w, "reprocess_ticket", fetched)
  /\ UNCHANGED <<web, engine, db, requests, last_write>>

\* reprocess_ticket: fetched is what FreshdeskClient.get_ticket returned, None when the
\* request failed or the helpdesk has no such ticket
reprocess_ticket(w, ticket_id, fetched) ==
  /\ pc[w] \in {"idle", "done"}
  /\ nruns < MaxRuns
  /\ (IF fetched = None THEN TRUE ELSE fetched.id = ticket_id)
  /\ IF fetched = None
       THEN /\ nruns' = nruns + 1
            /\ run' = [run EXCEPT ![w] = nruns + 1]
            /\ entry' = [entry EXCEPT ![w] = "reprocess_ticket"]
            /\ ticket_data' = [ticket_data EXCEPT ![w] = None]
            /\ ai_result' = [ai_result EXCEPT ![w] = None]
            /\ ticket' = [ticket EXCEPT ![w] = 0]
            /\ todo' = [todo EXCEPT ![w] = <<>>]
            /\ pending' = [pending EXCEPT ![w] = <<>>]
            /\ handled' = [handled EXCEPT ![w] = <<>>]
            /\ logged' = [logged EXCEPT ![w] = 0]
            /\ result' = [result EXCEPT ![w] = [success |-> FALSE, error |-> "Ticket not found"]]
            /\ pc' = [pc EXCEPT ![w] = "done"]
       ELSE enter_process_new_ticket(w, "reprocess_ticket", fetched)
  /\ UNCHANGED <<web, engine, db, requests, last_write>>

\* the handler process_new_ticket calls next, with the requests it will send
start_handlers(w, handlers) ==
  /\ todo' = [todo EXCEPT ![w] = handlers]
  /\ pending' = [pending EXCEPT ![w] =
                   IF handlers = <<>> THEN <<>>
                   ELSE handler_requests(Head(handlers), get(ticket_data[w], "id", 0), ai_result[w])]
  /\ pc' = [pc EXCEPT ![w] = IF handlers = <<>> THEN "history" ELSE "dispatch"]

\* variant: _store_ticket logs the failed commit and returns instead of re-raising
_store_ticket_swallow(w, commit_ok) ==
  /\ pc[w] = "store"
  /\ last_write' = run[w]
  /\ LET td           == ticket_data[w]
         freshdesk_id == get(td, "id", 0)
         row          == new_ticket(Len(tickets) + 1, freshdesk_id,
                                    get(td, "subject", <<>>), get(td, "description", <<>>),
                                    get(td, "requester_id", 0), get(td, "priority", 1),
                                    ai_result[w])
     IN  IF commit_ok /\ ~unique_violation(tickets, freshdesk_id)
           THEN /\ tickets' = Append(tickets, row)
                /\ ticket' = [ticket EXCEPT ![w] = row.id]
           ELSE UNCHANGED <<tickets, ticket>>
  /\ start_handlers(w, dispatch(ai_result[w]))
  /\ UNCHANGED <<web, engine, ticket_history, requests, nruns, run, entry, ticket_data, ai_result,
                 handled, logged, result>>

\* _store_ticket: INSERT and commit.  The commit fails when the database refuses the
\* write (commit_ok = FALSE) or the unique index on freshdesk_id rejects the row; the
\* session is then rolled back and the exception reaches the except clause of
\* process_new_ticket, which returns the failure dict.
_store_ticket(w, commit_ok) ==
  /\ pc[w] = "store"
  /\ last_write' = run[w]
  /\ LET td           == ticket_data[w]
         freshdesk_id == get(td, "id", 0)
         row          == new_ticket(Len(tickets) + 1, freshdesk_id,
                                    get(td, "subject", <<>>), get(td, "description", <<>>),
                                    get(td, "requester_id", 0), get(td, "priority", 1),
                                    ai_result[w])
     IN  IF commit_ok /\ ~unique_violation(tickets, freshdesk_id)
           THEN /\ tickets' = Append(tickets, row)
                /\ ticket' = [ticket EXCEPT ![w] = row.id]
                /\ start_handlers(w, dispatch(ai_result[w]))
                /\ UNCHANGED result
           ELSE /\ result' = [result EXCEPT ![w] =
                                [success |-> FALSE,
                                 error |-> IF commit_ok THEN "IntegrityError" ELSE "OperationalError"]]
                /\ pc' = [pc EXCEPT ![w] = "done"]
                /\ UNCHANGED <<tickets, ticket, todo, pending>>
  /\ UNCHANGED <<web, engine, ticket_history, requests, nruns, run, entry, ticket_data, ai_result,
                 handled, logged>>

\* variant: a failed request raises, and the exception leaves process_new_ticket
_make_request_raises(w, ok) ==
  /\ pc[w] = "dispatch"
  /\ pending[w] # <<>>
  /\ requests' = Append(requests,
                        [run |-> run[w], handler |-> Head(todo[w]), ok |-> ok] @@ Head(pending[w]))
  /\ IF ok
       THEN /\ pending' = [pending EXCEPT ![w] = Tail(pending[w])]
            /\ UNCHANGED <<pc, result>>
       ELSE /\ pending' = [pending EXCEPT ![w] = <<>>]
            /\ pc' = [pc EXCEPT ![w] = "done"]
            /\ result' = [result EXCEPT ![w] = [success |-> FALSE, error |-> "RequestException"]]
  /\ UNCHANGED <<web, engine, db, nruns, last_write, run, entry, ticket_data, ai_result, ticket,
                 todo, handled, logged>>

\* FreshdeskClient._make_request for the next call of the running handler: the request
\* is sent; any failure (status other than 200/201, exception) gives None, which no
\* handler looks at
_make_request(w, ok) ==
  /\ pc[w] = "dispatch"
  /\ pending[w] # <<>>
  /\ requests' = Append(requests,
                        [run |-> run[w], handler |-> Head(todo[w]), ok |-> ok] @@ Head(pending[w]))
  /\ pending' = [pending EXCEPT ![w] = Tail(pending[w])]
  /\ UNCHANGED <<web, engine, db, nruns, last_write, pc, run, entry, ticket_data, ai_result, ticket,
                 todo, handled, logged, result>>

\* "Update database" of each handler
auto_resolvable_update(row) == [row EXCEPT !.status = "resolved", !.auto_resolved = TRUE]
\* variant: the escalation handler forgets the assignee
escalation_update_status_only(row) == [row EXCEPT !.status = "escalated"]
escalation_update(row)      == [row EXCEPT !.status = "escalated", !.assigned_to = "human_agent"]
tier_2_update(row)          == [row EXCEPT !.status = "pending"]

\* handlers that update the row only when every request for the ticket came back ok
handler_update_if_ok(handler, row) ==
  IF \E i \in 1..Len(requests) : requests[i].ticket_id = row.freshdesk_id /\ ~requests[i].ok
    THEN row
    ELSE CASE handler = "_handle_auto_resolvable_ticket" -> auto_resolvable_update(row)
           [] handler = "_handle_escalation_ticket"      -> escalation_update(row)
           [] handler = "_handle_tier_2_ticket"          -> tier_2_update(row)

handler_update(handler, row) ==
  CASE handler = "_handle_auto_resolvable_ticket" -> auto_resolvable_update(row)
    [] handler = "_handle_escalation_ticket"      -> escalation_update(row)
    [] handler = "_handle_tier_2_ticket"          -> tier_2_update(row)

\* the end of a handler, after its client calls: query the Ticket by freshdesk_id,
\* update and commit it, return to process_new_ticket
finish_handler(w, handler) ==
  /\ pc[w] = "dispatch"
  /\ pending[w] = <<>>
  /\ todo[w] # <<>>
  /\ Head(todo[w]) = handler
  /\ LET k == query_first(tickets, get(ticket_data[w], "id", 0))
     IN  tickets' = IF k = 0 THEN tickets
                    ELSE [tickets EXCEPT ![k] = handler_update(handler, tickets[k])]
  /\ handled' = [handled EXCEPT ![w] = Append(handled[w], handler)]
  /\ start_handlers(w, Tail(todo[w]))
  /\ UNCHANGED <<web, engine, ticket_history, requests, nruns, last_write, run, entry, ticket_data,
                 ai_result, ticket, logged, result>>

_handle_auto_resolvable_ticket(w) == finish_handler(w, "_handle_auto_resolvable_ticket")
_handle_escalation_ticket(w)      == finish_handler(w, "_handle_escalation_ticket")
_handle_tier_2_ticket(w)          == finish_handler(w, "_handle_tier_2_ticket")

\* the rows _log_ticket_history inserts for one call of process_new_ticket
history_rows(ticket_id, ai) ==
  << [ticket_id |-> ticket_id, action |-> "processed",
      details |-> [tier |-> ai.tier, confidence |-> ai.confidence]] >>

\* _log_ticket_history and the return of the success dict (lines 49-62); the session
\* is usable, no commit has raised in the handler
_log_ticket_history(w) ==
  /\ pc[w] = "history"
  /\ handled[w] # <<>>
  /\ LET rows == history_rows(ticket[w], ai_result[w])
     IN  /\ ticket_history' = ticket_history \o rows
         /\ logged' = [logged EXCEPT ![w] = logged[w] + Len(rows)]
  /\ result' = [result EXCEPT ![w] =
                  [success         |-> TRUE,
                   ticket_id       |-> get(ticket_data[w], "id", 0),
                   tier            |-> ai_result[w].tier,
                   confidence      |-> ai_result[w].confidence,
                   category        |-> ai_result[w].category,
                   auto_resolvable |-> ai_result[w].auto_resolvable,
                   escalated       |-> ai_result[w].escalation_needed,
                   bot_response    |-> ai_result[w].response,
                   priority        |-> get(ticket_data[w], "priority", 1)]]
  /\ pc' = [pc EXCEPT ![w] = "done"]
  /\ UNCHANGED <<web, engine, tickets, requests, nruns, last_write, run, entry, ticket_data, ai_result,
                 ticket, todo, pending, handled>>

\* one step of worker w
Step(w) ==
  \/ \E data \in Payloads : process_new_ticket(w, data)
  \/ \E ticket_id \in TicketIds, fetched \in Payloads \cup {None} :
       reprocess_ticket(w, ticket_id, fetched)
  \/ \E commit_ok \in BOOLEAN : _store_ticket(w, commit_ok)
  \/ \E ok \in BOOLEAN : _make_request(w, ok)
  \/ _handle_auto_resolvable_ticket(w)
  \/ _handle_escalation_ticket(w)
  \/ _handle_tier_2_ticket(w)
  \/ _log_ticket_history(w)

\* one server process: the async endpoints call the processor without awaiting, so
\* calls are executed one after the other
Next == Step(1)

Spec == Init /\ [][Next]_vars

\* Several server processes sharing the database: each call is interleaved with the
\* other's at its commits and requests.  The events all concern one helpdesk ticket,
\* whose content differs from one delivery or fetch to the next.
SharedTicketId == CHOOSE i \in TicketIds : \A j \in TicketIds : i <= j

ConcurrentPayloads == {p \in Payloads : p.id = SharedTicketId /\ "priority" \in DOMAIN p}

StepConcurrent(w) ==
  \/ \E data \in ConcurrentPayloads : process_new_ticket(w, data)
  \/ \E fetched \in ConcurrentPayloads \cup {None} : reprocess_ticket(w, SharedTicketId, fetched)
  \/ \E commit_ok \in BOOLEAN : _store_ticket(w, commit_ok)
  \/ \E ok \in BOOLEAN : _make_request(w, ok)
  \/ _handle_auto_resolvable_ticket(w)
  \/ _handle_escalation_ticket(w)
  \/ _handle_tier_2_ticket(w)
  \/ _log_ticket_history(w)

NextConcurrent == \E w \in Workers : StepConcurrent(w)

SpecConcurrent == Init /\ [][NextConcurrent]_vars

\* ------------------------------------------------- database failures after the store
\* The commit at the end of a handler raises (the database is locked or gone): the
\* except clause of the handler logs the error, the row keeps what _store_ticket
\* wrote, and process_new_ticket goes on to _log_ticket_history.
handler_commit_fails(w) ==
  /\ pc[w] = "dispatch"
  /\ pending[w] = <<>>
  /\ todo[w] # <<>>
  /\ query_first(tickets, get(ticket_data[w], "id", 0)) # 0
  /\ start_handlers(w, Tail(todo[w]))
  /\ UNCHANGED <<web, engine, db, requests, nruns, last_write, run, entry, ticket_data,
                 ai_result, ticket, handled, logged, result>>

\* _log_ticket_history when its add or commit raises, because the database fails or
\* because the session was left unusable by the commit that raised in the handler:
\* the except clause (lines 197-198) logs the error and process_new_ticket returns
\* the success dict
_log_ticket_history_fails(w) ==
  /\ pc[w] = "history"
  /\ result' = [result EXCEPT ![w] =
                  [success         |-> TRUE,
                   ticket_id       |-> get(ticket_data[w], "id", 0),
                   tier            |-> ai_result[w].tier,
                   confidence      |-> ai_result[w].confidence,
                   category        |-> ai_result[w].category,
                   auto_resolvable |-> ai_result[w].auto_resolvable,
                   escalated       |-> ai_result[w].escalation_needed,
                   bot_response    |-> ai_result[w].response,
                   priority        |-> get(ticket_data[w], "priority", 1)]]
  /\ pc' = [pc EXCEPT ![w] = "done"]
  /\ UNCHANGED <<web, engine, db, requests, nruns, last_write, run, entry, ticket_data, ai_result,
                 ticket, todo, pending, handled, logged>>

\* one server process handling webhook events, every commit after the store able to fail
NextDbFaults ==
  \/ \E data \in Payloads : process_new_ticket(1, data)
  \/ \E commit_ok \in BOOLEAN : _store_ticket(1, commit_ok)
  \/ \E ok \in BOOLEAN : _make_request(1, ok)
  \/ _handle_auto_resolvable_ticket(1)
  \/ _handle_escalation_ticket(1)
  \/ _handle_tier_2_ticket(1)
  \/ handler_commit_fails(1)
  \/ _log_ticket_history(1)
  \/ _log_ticket_history_fails(1)

SpecDbFaults == Init /\ [][NextDbFaults]_vars

\* ------------------------------------------------- direct calls of the classifier
\* number of categorize_ticket calls in a behaviour
MaxTexts == 2

\* " ".join(words)
RECURSIVE join(_)
join(words) ==
  IF words = <<>> THEN <<>>
  ELSE IF Len(words) = 1 THEN Head(words)
  ELSE Head(words) \o <<" ">> \o join(Tail(words))

\* subjects typed into the form: none, one to six distinct complex keywords, a keyword
\* twice, and a word with capitals that contains a keyword
Subjects ==
  { join(<<>>),
    join(<<kw_error>>),
    join(<<kw_error, kw_bug>>),
    join(<<kw_error, kw_bug, kw_crash>>),
    join(<<kw_error, kw_bug, kw_crash, kw_system>>),
    join(<<kw_error, kw_bug, kw_crash, kw_system, kw_technical, kw_critical>>),
    join(<<kw_crash, kw_crash>>),
    join(<<w_Debugging>>) }

\* descriptions: none, tier_1 and tier_2 keywords alone and together, and words that
\* are keywords of a category but of no tier
Descriptions ==
  { join(<<>>),
    join(<<kw_password>>),
    join(<<kw_password, kw_reset, kw_login>>),
    join(<<kw_billing, kw_password>>),
    join(<<kw_billing, kw_payment, kw_subscription>>),
    join(<<kw_forgot, kw_invoice>>),
    join(<<kw_billing>>),
    join(<<kw_password, kw_invoice>>),
    join(<<kw_profile>>),
    join(<<w_hello>>) }

\* the form calls ai_engine.categorize_ticket(subject, description)
categorize(subject, description) ==
  /\ Len(ticket_texts) < MaxTexts
  /\ ticket_texts' = Append(ticket_texts, [subject |-> subject, description |-> description])
  /\ classified' = Append(classified, categorize_ticket(subject, description))
  /\ UNCHANGED <<web, docs_folder, knowledge_texts, embedding_model, embedding_backend, query, answer,
                 db, locals, requests, nruns, last_write>>

NextClassify == \E subject \in Subjects, description \in Descriptions : categorize(subject, description)

SpecClassify == Init /\ [][NextClassify]_vars

\* ------------------------------------------------- direct calls of the retriever
\* the docs folder at start-up: absent, empty, without .txt files, the two documents
\* in either listing order (os.listdir gives no order), and three files of which one
\* is not a .txt file and one is longer than the excerpt
Folders ==
  { AbsentFolder,
    [exists |-> TRUE, files |-> <<>>],
    [exists |-> TRUE, files |-> << [name |-> file_notes_md, content |-> doc_reset] >>],
    DocsFolder,
    [exists |-> TRUE,
     files  |-> << [name |-> file_billing_txt, content |-> doc_billing],
                   [name |-> file_reset_txt, content |-> doc_reset] >>],
    [exists |-> TRUE,
     files  |-> << [name |-> file_notes_md, content |-> doc_billing],
                   [name |-> file_refund_txt, content |-> doc_long],
                   [name |-> file_reset_txt, content |-> doc_reset] >>] }

\* queries typed into the form
Queries ==
  { q_empty, q_blank, q_how_do_I_reset_password, q_billing, q_RESET, q_reset_billing,
    q_reset_reset_billing, q_details_here, q_refund, q_zebra, q_ten_days_invoice,
    q_tab_password, w_passwords }

\* AIEngine() in any deployment: the models load or not, then the folder is read
InitRetrieve ==
  /\ docs_folder \in Folders
  /\ embedding_model \in BOOLEAN
  /\ embedding_backend \in (IF embedding_model THEN Backends ELSE {"none"})
  /\ knowledge_texts = _load_knowledge_base(docs_folder)
  /\ webhook_secret = ""
  /\ NoWebhookCalls
  /\ NoDirectCalls
  /\ InitProcessor

\* the form calls ai_engine.get_rag_response(query)
ask(q) ==
  /\ query' = q
  /\ answer' = rag_call(q)
  /\ UNCHANGED <<web, docs_folder, knowledge_texts, embedding_model, embedding_backend, ticket_texts, classified,
                 db, locals, requests, nruns, last_write>>

NextRetrieve == \E q \in Queries : ask(q)

SpecRetrieve == InitRetrieve /\ [][NextRetrieve]_vars

\* ------------------------------------------------- the webhook endpoint (main.py)
\* number of webhook events accepted in a behaviour
MaxEvents == 2

\* a header value or a secret given as text
Str(s) == [str |-> s]

\* hmac.new(key, body, hashlib.sha256).hexdigest(): a digest is determined by the key
\* and the body, and digests of different keys or bodies differ
hmac_sha256(key, body) == [key |-> key, msg |-> body]

\* the secret the handler compares the x-webhook-secret header with
expected_secret == "ai-customer-ticket-resolution-bot"

\* values of FRESHDESK_WEBHOOK_SECRET in a deployment: not set, a secret of the operator
Secrets == {"", "s3cret"}

\* the tickets of webhook events: those of one helpdesk ticket
WebhookTickets == {p \in Payloads : p.id = SharedTicketId}

\* the ticket with the given subject
TicketWith(subject) == CHOOSE p \in WebhookTickets : "subject" \in DOMAIN p /\ p.subject = subject

\* request bodies: text that is not JSON, the three formats of the handler, a direct
\* ticket without subject, an event that is no ticket
Bodies ==
  {[valid |-> FALSE, data |-> None],
   [valid |-> TRUE, data |-> [ticket |-> TicketWith(txt_system_crash_critical)]],
   [valid |-> TRUE, data |-> TicketWith(txt_Invoice)],
   [valid |-> TRUE, data |-> CHOOSE p \in WebhookTickets : "subject" \notin DOMAIN p],
   [valid |-> TRUE, data |-> [freshdesk_webhook |-> [ticket_id |-> SharedTicketId]]],
   [valid |-> TRUE, data |-> [event |-> "ping"]]}

OtherBody == [valid |-> TRUE, data |-> [event |-> "ping"]]

HeaderNames == {"x-webhook-secret", "X-Freshdesk-Signature", "X-Webhook-Signature", "X-Signature"}

NoHeaders == [name \in HeaderNames |-> None]

\* the authentication headers a sender may add to a request with body b
HeadersFor(b) ==
  LET secrets == {None, Str("s3cret"), Str(expected_secret), Str("guess")}
      first   == {None, Str(""), hmac_sha256("s3cret", b), hmac_sha256("guess", b),
                  hmac_sha256("s3cret", OtherBody)}
      signatures ==
        {[NoHeaders EXCEPT !["X-Freshdesk-Signature"] = v] : v \in first}
        \cup {[NoHeaders EXCEPT !["X-Webhook-Signature"] = hmac_sha256("s3cret", b)],
              [NoHeaders EXCEPT !["X-Freshdesk-Signature"] = Str(""),
                                !["X-Signature"] = hmac_sha256("guess", b)]}
  IN  {[h EXCEPT !["x-webhook-secret"] = v] : h \in signatures, v \in secrets}

Requests == UNION {{[headers |-> h, body |-> b] : h \in HeadersFor(b)} : b \in Bodies}

\* truth value of a header value: None and "" are false
truthy(v) == v # None /\ v # Str("")

\* the signature the handler verifies: the first of the three headers that is set
signature_header(headers) ==
  IF truthy(headers["X-Freshdesk-Signature"]) THEN headers["X-Freshdesk-Signature"]
  ELSE IF truthy(headers["X-Webhook-Signature"]) THEN headers["X-Webhook-Signature"]
  ELSE headers["X-Signature"]

\* lines 122-160: None when the request passes, else the HTTPException raised
verify_webhook(secret, request) ==
  IF secret = "" THEN None
  ELSE IF truthy(request.headers["x-webhook-secret"])
    THEN IF request.headers["x-webhook-secret"] # Str(expected_secret)
           THEN [status_code |-> 401, detail |-> "Invalid webhook secret"]
           ELSE None
  ELSE IF ~truthy(signature_header(request.headers)) THEN None
  ELSE IF signature_header(request.headers) # hmac_sha256(secret, request.body)
    THEN [status_code |-> 401, detail |-> "Invalid signature"]
    ELSE None

\* lines 162-208: the ticket the handler takes from the parsed body and its answer;
\* fetched is what get_ticket returns for the freshdesk_webhook format
take_ticket(webhook_data, fetched) ==
  IF "freshdesk_webhook" \in DOMAIN webhook_data
    THEN IF fetched # None
           THEN [ticket_data |-> fetched,
                 response |-> [status_code |-> 200, status |-> "processing", ticket_id |-> get(fetched, "id", 0)]]
           ELSE [ticket_data |-> None,
                 response |-> [status_code |-> 200, status |-> "error", reason |-> "Failed to fetch ticket details"]]
  ELSE IF "ticket" \in DOMAIN webhook_data
    THEN [ticket_data |-> webhook_data.ticket,
          response |-> [status_code |-> 200, status |-> "processing",
                        ticket_id |-> get(webhook_data.ticket, "id", 0)]]
  ELSE IF "id" \in DOMAIN webhook_data /\ "subject" \in DOMAIN webhook_data
    THEN [ticket_data |-> webhook_data,
          response |-> [status_code |-> 200, status |-> "processing", ticket_id |-> webhook_data.id]]
  ELSE [ticket_data |-> None,
        response |-> [status_code |-> 200, status |-> "ignored", reason |-> "Not a valid ticket event"]]

\* the handler from the request to its answer
webhook_outcome(secret, request, fetched) ==
  IF verify_webhook(secret, request) # None
    THEN [ticket_data |-> None, response |-> verify_webhook(secret, request)]
  ELSE IF ~request.body.valid
    THEN [ticket_data |-> None, response |-> [status_code |-> 400, detail |-> "Invalid JSON"]]
  ELSE take_ticket(request.body.data, fetched)

\* what get_ticket may return during the request: None when the request failed or is
\* not made, else the ticket of that id
Fetched(request) ==
  IF request.body.valid /\ "freshdesk_webhook" \in DOMAIN request.body.data
    THEN {None} \cup {p \in {TicketWith(txt_forgot_password)} :
                         p.id = request.body.data.freshdesk_webhook.ticket_id}
    ELSE {None}

\* POST /webhook/freshdesk
freshdesk_webhook(request, fetched) ==
  /\ nruns + Len(background_tasks) < MaxEvents
  /\ webhook_request' = request
  /\ LET out == webhook_outcome(webhook_secret, request, fetched)
     IN  /\ webhook_response' = out.response
         /\ background_tasks' = IF out.ticket_data # None
                                  THEN Append(background_tasks, out.ticket_data)
                                  ELSE background_tasks
  /\ UNCHANGED <<webhook_secret, engine, db, locals, requests, nruns, last_write>>

\* the server starts the oldest background task: process_new_ticket(ticket_data)
process_ticket_background(w) ==
  /\ background_tasks # <<>>
  /\ pc[w] \in {"idle", "done"}
  /\ nruns < MaxRuns
  /\ enter_process_new_ticket(w, "process_new_ticket", Head(background_tasks))
  /\ background_tasks' = Tail(background_tasks)
  /\ UNCHANGED <<webhook_secret, webhook_request, webhook_response, engine, db, requests, last_write>>

\* a deployment with any setting of the secret
InitWebhook ==
  /\ docs_folder = DocsFolder
  /\ knowledge_texts = _load_knowledge_base(docs_folder)
  /\ embedding_model = FALSE
  /\ embedding_backend = "none"
  /\ webhook_secret \in Secrets
  /\ NoWebhookCalls
  /\ NoDirectCalls
  /\ InitProcessor

NextWebhook ==
  \/ \E request \in Requests : \E fetched \in Fetched(request) : freshdesk_webhook(request, fetched)
  \/ process_ticket_background(1)
  \/ \E commit_ok \in BOOLEAN : _store_ticket(1, commit_ok)
  \/ \E ok \in BOOLEAN : _make_request(1, ok)
  \/ _handle_auto_resolvable_ticket(1)
  \/ _handle_escalation_ticket(1)
  \/ _handle_tier_2_ticket(1)
  \/ _log_ticket_history(1)

SpecWebhook == InitWebhook /\ [][NextWebhook]_vars

TypeOK ==
  /\ nruns \in 0..MaxRuns
  /\ \A w \in Workers : pc[w] \in {"idle", "store", "dispatch", "history", "done"}
  /\ \A i \in 1..Len(tickets) : tickets[i].id = i

\* ------------------------------------------------------------ properties
\* the requests sent during call number r, in the order sent
RunRequests(r) == SelectSeq(requests, LAMBDA q : q.run = r)

\* worker w has returned from its call / has returned the success dict
Returned(w)  == pc[w] = "done"
Succeeded(w) == pc[w] = "done" /\ result[w].success
\* the call of worker w got past _store_ticket
Stored(w)    == pc[w] \in {"dispatch", "history", "done"} /\ ticket[w] # 0

IsNote(q, is_private) == q.method = "POST" /\ q.endpoint = "notes" /\ q.data.private = is_private
IsResolve(q)   == q.method = "PUT" /\ "status" \in DOMAIN q.data /\ q.data.status = StatusResolved
IsPending(q)   == q.method = "PUT" /\ "status" \in DOMAIN q.data /\ q.data.status = StatusPending
IsStatusPut(q) == q.method = "PUT" /\ "status" \in DOMAIN q.data
IsEscalate(q)  == q.method = "PUT" /\ "priority" \in DOMAIN q.data /\ q.data.priority = PriorityHigh

\* C1: in every call of process_new_ticket the two disposition flags are functions of the
\* classifier output for the ticket's text, each computed on its own:
\* auto_resolvable = (tier = tier_1 and confidence > 0.6) and
\* escalation_needed = (tier = complex or confidence < 0.5); the returned dict reports them.
C1_DispositionFlags ==
  \A w \in Workers :
    ai_result[w] # None =>
      LET c == categorize_ticket(get(ticket_data[w], "subject", <<>>),
                                 get(ticket_data[w], "description", <<>>))
      IN  /\ ai_result[w].tier = c.tier
          /\ ai_result[w].confidence = c.confidence
          /\ ai_result[w].auto_resolvable = ((c.tier = "tier_1") /\ (c.confidence > 60))
          /\ ai_result[w].escalation_needed = ((c.tier = "complex") \/ (c.confidence < 50))
          /\ Succeeded(w) =>
               /\ result[w].auto_resolvable = ((c.tier = "tier_1") /\ (c.confidence > 60))
               /\ result[w].escalated = ((c.tier = "complex") \/ (c.confidence < 50))

\* a tier_1 ticket at confidence exactly 0.6 was processed: neither flag is set
C1_Witness ==
  \E w \in Workers :
    /\ Succeeded(w)
    /\ result[w].tier = "tier_1" /\ result[w].confidence = 60
    /\ ~result[w].auto_resolvable /\ ~result[w].escalated

\* the path the claims name for a pair of flags
ExpectedPath(ai) ==
  IF ai.auto_resolvable THEN "_handle_auto_resolvable_ticket"
  ELSE IF ai.escalation_needed THEN "_handle_escalation_ticket"
  ELSE "_handle_tier_2_ticket"

\* C2: a call that reaches dispatch runs exactly one of the three handlers: the
\* auto-resolve handler when auto_resolvable, else the escalation handler when
\* escalation_needed, else the tier-2 handler; every request of the call is sent by that
\* handler, and the call never finishes with two handlers run or with none.
C2_ExactlyOnePath ==
  \A w \in Workers :
    Stored(w) =>
      /\ Len(handled[w]) <= 1
      /\ \A i \in 1..Len(handled[w]) : handled[w][i] = ExpectedPath(ai_result[w])
      /\ \A i \in 1..Len(RunRequests(run[w])) :
           RunRequests(run[w])[i].handler = ExpectedPath(ai_result[w])
      /\ pc[w] \in {"history", "done"} => handled[w] = <<ExpectedPath(ai_result[w])>>

\* an auto-resolvable ticket went through dispatch
C2_Witness ==
  \E w \in Workers :
    /\ Succeeded(w)
    /\ ai_result[w].auto_resolvable
    /\ handled[w] = <<"_handle_auto_resolvable_ticket">>

\* C3 (as claimed): a call for an auto-resolvable ticket ends with the stored Ticket
\* resolved and auto_resolved, the helpdesk having received exactly one public note
\* followed by one resolve.
C3_OneNoteThenResolve ==
  \A w \in Workers :
    (Succeeded(w) /\ ai_result[w].auto_resolvable) =>
      /\ tickets[ticket[w]].status = "resolved"
      /\ tickets[ticket[w]].auto_resolved
      /\ LET sent == RunRequests(run[w])
         IN  /\ Len(sent) = 2
             /\ IsNote(sent[1], FALSE)
             /\ IsResolve(sent[2])

Assist(w) == Stored(w) /\ ~ai_result[w].auto_resolvable /\ ~ai_result[w].escalation_needed

SomeRequestFailed(r) == \E i \in 1..Len(requests) : requests[i].run = r /\ ~requests[i].ok

StoreFailed(w) ==
  /\ Returned(w)
  /\ ~result[w].success
  /\ result[w].error \in {"IntegrityError", "OperationalError"}

\* C7: when the write of _store_ticket fails, the step leaves both tables as they were
\* (rolled back) and sends nothing; the call returns success = false with an error
\* message, having stored no Ticket, inserted no ticket_history row and sent no request.
C7_StoreFailureAborts ==
  /\ [](\A w \in Workers :
          StoreFailed(w) =>
            /\ ticket[w] = 0
            /\ logged[w] = 0
            /\ handled[w] = <<>>
            /\ RunRequests(run[w]) = <<>>)
  /\ [][\A w \in Workers :
          (pc[w] = "store" /\ pc'[w] # "store" /\ ticket'[w] = 0) =>
            /\ pc'[w] = "done"
            /\ ~result'[w].success
            /\ result'[w].error \in {"IntegrityError", "OperationalError"}
            /\ tickets' = tickets
            /\ ticket_history' = ticket_history
            /\ requests' = requests]_vars

\* a call failed on a refused write while the table was empty
C7_Witness ==
  \E w \in Workers :
    /\ StoreFailed(w)
    /\ result[w].error = "OperationalError"
    /\ tickets = <<>>

\* the call of worker w failed because the database refused the write (not because of
\* the unique index)
DbRefused(w) == Returned(w) /\ ~result[w].success /\ result[w].error = "OperationalError"

\* the call of worker w processed a payload (reprocess_ticket found the ticket)
Processed(w) == Returned(w) /\ ticket_data[w] # None

\* the row stored for the ticket of worker w carries what the call of w computed
RowReflects(w) ==
  LET k == query_first(tickets, get(ticket_data[w], "id", 0))
  IN  /\ k # 0
      /\ tickets[k].subject = get(ticket_data[w], "subject", <<>>)
      /\ tickets[k].description = get(ticket_data[w], "description", <<>>)
      /\ tickets[k].priority = get(ticket_data[w], "priority", 1)
      /\ tickets[k].tier = ai_result[w].tier
      /\ tickets[k].confidence_score = ai_result[w].confidence
      /\ tickets[k].category = ai_result[w].category
      /\ tickets[k].escalation_reason = ai_result[w].escalation_reason
      /\ tickets[k].bot_response = ai_result[w].response

UniqueExternalId ==
  \A i, j \in 1..Len(tickets) : tickets[i].freshdesk_id = tickets[j].freshdesk_id => i = j

\* C8 (as claimed): the table holds at most one Ticket per freshdesk_id, and a call for
\* an id that already has a Ticket updates that Ticket: after the call the one row of
\* the id carries the call's text and classification.
C8_UpsertByExternalId ==
  /\ UniqueExternalId
  /\ \A w \in Workers : (Processed(w) /\ ~DbRefused(w)) => RowReflects(w)

\* C9 (as claimed): every reprocess_ticket run inserts exactly one ticket_history row,
\* and the Ticket of the id then reflects the classification of that (latest) run.
C9_ReprocessLogsAndUpdates ==
  \A w \in Workers :
    (Processed(w) /\ entry[w] = "reprocess_ticket" /\ ~DbRefused(w)) =>
      /\ logged[w] = 1
      /\ RowReflects(w)

\* C10 (as claimed): two reprocess_ticket calls on the same id, however interleaved,
\* both complete their processing, and the Ticket then carries, in all its fields, the
\* values of the call that wrote last.
C10_LastWriteWins ==
  \A w1, w2 \in Workers :
    ( /\ w1 # w2
      /\ Processed(w1) /\ Processed(w2)
      /\ entry[w1] = "reprocess_ticket" /\ entry[w2] = "reprocess_ticket"
      /\ ticket_data[w1].id = ticket_data[w2].id
      /\ ~DbRefused(w1) /\ ~DbRefused(w2)
      /\ run[w1] = last_write ) =>
        /\ Succeeded(w1)
        /\ Succeeded(w2)
        /\ RowReflects(w1)

\* the reprocess_ticket call of worker w got None from get_ticket
NotFound(w) == Returned(w) /\ entry[w] = "reprocess_ticket" /\ ticket_data[w] = None

\* C11: reprocess_ticket for an id the helpdesk has no record of (get_ticket returned
\* None) returns the failure "Ticket not found"; the call classified nothing, stored no
\* row, appended no history entry and sent no helpdesk write request, and the step that
\* returns leaves the tables and the request log as they were.
C11_NotFoundNoEffects ==
  /\ [](\A w \in Workers :
          NotFound(w) =>
            /\ result[w] = [success |-> FALSE, error |-> "Ticket not found"]
            /\ ai_result[w] = None
            /\ ticket[w] = 0
            /\ logged[w] = 0
            /\ RunRequests(run[w]) = <<>>)
  /\ [][\A w \in Workers :
          (NotFound(w)' /\ run'[w] # run[w]) =>
            /\ tickets' = tickets
            /\ ticket_history' = ticket_history
            /\ requests' = requests]_vars

\* a reprocess_ticket call found no ticket after an earlier call had stored one
C11_Witness ==
  \E w \in Workers :
    /\ NotFound(w)
    /\ result[w] = [success |-> FALSE, error |-> "Ticket not found"]
    /\ tickets # <<>>
    /\ ticket_history # <<>>

\* the process_new_ticket call of worker w was given a payload without subject or
\* without description
MissingField(w) ==
  /\ Returned(w)
  /\ entry[w] = "process_new_ticket"
  /\ missing_required(ticket_data[w])

\* C12: process_new_ticket on a payload missing its subject or its description returns
\* a failure outcome and persists no Ticket.
C12_MissingFieldRejected ==
  \A w \in Workers :
    MissingField(w) => (~result[w].success /\ ticket[w] = 0)

\* the text categorize_ticket looks at for the call with arguments t
Combined(t) == lower(t.subject \o <<" ">> \o t.description)

\* the keywords of the list that occur in the text, each once
Present(keywords, text) == {i \in 1..Len(keywords) : contains(text, keywords[i])}

complexCount(t) == Cardinality(Present(complex_keywords, Combined(t)))
tier2Count(t)   == Cardinality(Present(tier_2_keywords, Combined(t)))
tier1Count(t)   == Cardinality(Present(tier_1_keywords, Combined(t)))

\* C13: categorize_ticket picks the tier by strict precedence over the numbers of
\* keywords of each set present in the text: complex with min(0.9, 0.5 + 0.1 n) when a
\* complex keyword is present, else tier_2 with min(0.8, 0.6 + 0.1 n), else tier_1 with
\* min(0.7, 0.5 + 0.1 n), else complex with 0.5; a keyword counts once however often
\* it occurs.
C13_TierPrecedence ==
  \A i \in 1..Len(classified) :
    LET t == ticket_texts[i]
        c == classified[i]
    IN  IF complexCount(t) > 0
          THEN c.tier = "complex" /\ c.confidence = Min(90, 50 + 10 * complexCount(t))
        ELSE IF tier2Count(t) > 0
          THEN c.tier = "tier_2" /\ c.confidence = Min(80, 60 + 10 * tier2Count(t))
        ELSE IF tier1Count(t) > 0
          THEN c.tier = "tier_1" /\ c.confidence = Min(70, 50 + 10 * tier1Count(t))
        ELSE c.tier = "complex" /\ c.confidence = 50

\* "crash crash" with "billing password" was classified complex at 0.6, and
\* "billing password" alone tier_2 at 0.7
C13_Witness ==
  /\ Len(classified) = 2
  /\ ticket_texts[1] = [subject |-> join(<<kw_crash, kw_crash>>), description |-> join(<<kw_billing, kw_password>>)]
  /\ classified[1].tier = "complex" /\ classified[1].confidence = 60
  /\ ticket_texts[2] = [subject |-> <<>>, description |-> join(<<kw_billing, kw_password>>)]
  /\ classified[2].tier = "tier_2" /\ classified[2].confidence = 70

\* C14: every text with at least one complex keyword is classified complex with a
\* confidence between 0.5 and 0.9; of two such texts the one with more distinct
\* complex keywords has no lower confidence; from four keywords on the confidence is
\* 0.9 and stays there; tier_1 and tier_2 keywords in the text change nothing.
C14_ComplexConfidence ==
  /\ \A i \in 1..Len(classified) :
        complexCount(ticket_texts[i]) > 0 =>
          /\ classified[i].tier = "complex"
          /\ classified[i].confidence >= 50
          /\ classified[i].confidence <= 90
          /\ complexCount(ticket_texts[i]) >= 4 => classified[i].confidence = 90
  /\ \A i, j \in 1..Len(classified) :
        ( /\ complexCount(ticket_texts[i]) > 0
          /\ complexCount(ticket_texts[i]) <= complexCount(ticket_texts[j]) ) =>
            classified[i].confidence <= classified[j].confidence

\* a text with one complex keyword and tier_1 and tier_2 keywords got 0.6, a text with
\* all six complex keywords and three tier_2 keywords got 0.9
C14_Witness ==
  /\ Len(classified) = 2
  /\ complexCount(ticket_texts[1]) = 1
  /\ tier1Count(ticket_texts[1]) > 0 /\ tier2Count(ticket_texts[1]) > 0
  /\ classified[1] = [tier |-> "complex", confidence |-> 60, category |-> "password_reset"]
  /\ complexCount(ticket_texts[2]) = 6
  /\ tier2Count(ticket_texts[2]) = 3
  /\ classified[2].tier = "complex" /\ classified[2].confidence = 90

\* no keyword of the three tier lists occurs in the text of call t
NoTierKeyword(t) == complexCount(t) = 0 /\ tier2Count(t) = 0 /\ tier1Count(t) = 0

\* C15 as stated: a text without any keyword of the three tier lists is classified
\* exactly (complex, 0.5, general).
C15_NoMatchGeneral ==
  \A i \in 1..Len(classified) :
    NoTierKeyword(ticket_texts[i]) =>
      classified[i] = [tier |-> "complex", confidence |-> 50, category |-> "general"]

\* the category of a text without tier keywords: the category keywords that are in no
\* tier list decide, in the order of the mapping
CategoryWithoutTier(text) ==
  IF contains(text, kw_forgot) THEN "password_reset"
  ELSE IF contains(text, kw_invoice) \/ contains(text, kw_charge) THEN "billing"
  ELSE IF contains(text, kw_profile) \/ contains(text, kw_user) THEN "account"
  ELSE "general"

\* C15, amended: a text without any keyword of the three tier lists is classified
\* complex with confidence 0.5; its category is general unless the text contains
\* "forgot" (password_reset), "invoice" or "charge" (billing), "profile" or "user"
\* (account), the category keywords that belong to no tier list.
C15_NoMatchDefaultTier ==
  \A i \in 1..Len(classified) :
    NoTierKeyword(ticket_texts[i]) =>
      classified[i] = [tier |-> "complex", confidence |-> 50,
                       category |-> CategoryWithoutTier(Combined(ticket_texts[i]))]

\* "forgot invoice" was classified (complex, 0.5, password_reset) and "hello"
\* (complex, 0.5, general)
C15_Witness ==
  /\ Len(classified) = 2
  /\ ticket_texts[1] = [subject |-> <<>>, description |-> join(<<kw_forgot, kw_invoice>>)]
  /\ classified[1] = [tier |-> "complex", confidence |-> 50, category |-> "password_reset"]
  /\ ticket_texts[2] = [subject |-> <<>>, description |-> w_hello]
  /\ classified[2] = [tier |-> "complex", confidence |-> 50, category |-> "general"]

\* the fixed order of the categories
CategoryOrder == <<"password_reset", "billing", "technical", "account", "general">>

\* the keyword list the mapping gives the category
KeywordsOf(name) ==
  (CHOOSE c \in {categories[k] : k \in 1..Len(categories)} : c.category = name).keywords

\* a keyword of the category occurs in the text
Matches(name, text) == Present(KeywordsOf(name), text) # {}

\* C16: the category is the first of password_reset, billing, technical, account,
\* general that has a keyword occurring in the lower-cased subject and description, and
\* general when none has; a text with a password keyword and a billing keyword gets
\* password_reset whatever its tier.
C16_FirstCategoryWins ==
  \A i \in 1..Len(classified) :
    LET text == Combined(ticket_texts[i])
        hits == {k \in 1..Len(CategoryOrder) : Matches(CategoryOrder[k], text)}
    IN  /\ hits = {} => classified[i].category = "general"
        /\ \A k \in hits :
             (\A l \in hits : k <= l) => classified[i].category = CategoryOrder[k]
        /\ (Matches("password_reset", text) /\ Matches("billing", text)) =>
             classified[i].category = "password_reset"

\* "billing password" with a complex keyword and "password invoice" alone, a complex
\* and a tier_1 ticket, both got password_reset; so did the tier_2 ticket
\* "billing password"
C16_Witness ==
  /\ Len(classified) = 2
  /\ ticket_texts[1] = [subject |-> kw_error, description |-> join(<<kw_billing, kw_password>>)]
  /\ classified[1].tier = "complex" /\ classified[1].category = "password_reset"
  /\ ticket_texts[2] = [subject |-> <<>>, description |-> join(<<kw_password, kw_invoice>>)]
  /\ classified[2].tier = "tier_1" /\ classified[2].category = "password_reset"

\* the query has no token: it is empty or whitespace only
Blank(q) == \A k \in 1..Len(q) : q[k] \in Whitespace

\* get_rag_response has been called and has returned or raised
Asked == answer # None

\* C17: get_rag_response never raises to its caller and never returns the empty
\* string, for every query and whether or not documents and the embedding model are
\* loaded; an empty or whitespace-only query gets the fixed message of the branch that
\* answers: the unavailable message without documents, the no-match message of the
\* keyword fallback with documents.
C17_AlwaysAnAnswer ==
  Asked =>
    /\ ~answer.raised
    /\ answer.value # None
    /\ answer.value.msg # ""
    /\ Blank(query) =>
         answer.value = (IF knowledge_texts = <<>> THEN MsgUnavailable ELSE MsgNotFound)

\* the whitespace-only query was answered with the no-match message by an engine that
\* has documents and an embedding model, after the try block had raised
C17_Witness ==
  /\ Asked
  /\ query = q_blank
  /\ embedding_model
  /\ knowledge_texts # <<>>
  /\ answer.route = "except_fallback"
  /\ answer.value = MsgNotFound

\* C18: with no document loaded, which is the case when the docs folder is absent (the
\* engine then starts without error and with an empty store), get_rag_response returns
\* the unavailable message verbatim for every query, from its first test: neither the
\* embedding model nor the keyword fallback is consulted.
C18_UnavailableWithoutDocuments ==
  /\ ~docs_folder.exists => knowledge_texts = <<>>
  /\ (Asked /\ knowledge_texts = <<>>) =>
       /\ answer.route = "unavailable"
       /\ answer.value = [msg |-> "I don't have access to the knowledge base at the moment. Please contact human support."]

\* an engine started without docs folder but with an embedding model was asked a
\* query that matches the documents of other deployments
C18_Witness ==
  /\ Asked
  /\ ~docs_folder.exists
  /\ embedding_model
  /\ query = q_how_do_I_reset_password
  /\ answer.value = MsgUnavailable

\* the call was answered by the keyword fallback
ByFallback == Asked /\ answer.route \in {"fallback", "except_fallback"}

\* the tokens of the query: its lower-cased whitespace-separated words
Tokens(q) == split(lower(q))

\* the number of tokens of the query, repeated ones included, that are substrings of
\* the lower-cased document
Score(q, doc) ==
  Cardinality({k \in 1..Len(Tokens(q)) : contains(lower(doc), Tokens(q)[k])})

\* document k has the highest score and every document before it a lower one
Selected(q, k) ==
  /\ \A l \in 1..Len(knowledge_texts) : Score(q, knowledge_texts[l]) <= Score(q, knowledge_texts[k])
  /\ \A l \in 1..(k - 1) : Score(q, knowledge_texts[l]) < Score(q, knowledge_texts[k])

\* the first n characters of a text, the whole text when it is shorter
FirstChars(doc, n) == IF Len(doc) <= n THEN doc ELSE SubSeq(doc, 1, n)

\* C19: the keyword fallback scores a document by the number of whitespace-separated
\* lower-cased query tokens that are substrings of the lower-cased document, selects
\* the document with the highest score, the first one on a tie, and returns the first
\* 500 characters of it behind the fixed prefix when that score is above 0, else the
\* fixed could-not-find message.
C19_KeywordOverlap ==
  ByFallback =>
    \A k \in 1..Len(knowledge_texts) :
      Selected(query, k) =>
        IF Score(query, knowledge_texts[k]) > 0
          THEN answer.value = [msg |-> "Based on our knowledge base:",
                               excerpt |-> FirstChars(knowledge_texts[k], 500)]
          ELSE answer.value = [msg |-> "I couldn't find specific information about that. Please contact human support for assistance."]

\* "details here" scores 1 on both documents and the one loaded first, the billing
\* document, was returned
C19_Witness ==
  /\ ByFallback
  /\ query = q_details_here
  /\ knowledge_texts = <<doc_billing, doc_reset>>
  /\ Score(query, doc_billing) = 1 /\ Score(query, doc_reset) = 1
  /\ answer.value.excerpt = doc_billing

\* "refund" was answered with the first 500 of the 520 characters of the refund document
C19_WitnessExcerpt ==
  /\ ByFallback
  /\ query = q_refund
  /\ Len(doc_long) > 500
  /\ answer.value.msg = "Based on our knowledge base:"
  /\ Len(answer.value.excerpt) = 500

\* the keyword fallback answered "how do I reset password" over the documents
\* "reset your password here" and "billing invoice details", in this order
TwoDocumentExample ==
  /\ ByFallback
  /\ knowledge_texts = <<doc_reset, doc_billing>>
  /\ query = q_how_do_I_reset_password

\* C20 as stated: in this example the first document scores 2, the second scores 0
\* and the first document is returned.
C20_ScoresTwoAndZero ==
  TwoDocumentExample =>
    /\ count_words(split(lower(query)), lower(knowledge_texts[1])) = 2
    /\ count_words(split(lower(query)), lower(knowledge_texts[2])) = 0
    /\ answer.value = [msg |-> "Based on our knowledge base:", excerpt |-> doc_reset]

\* C20, amended: in this example the first document scores 2 ("reset", "password"),
\* the second scores 1 (the token "i" is a substring of "billing invoice details") and
\* the first document is returned.
C20_ScoresTwoAndOne ==
  TwoDocumentExample =>
    /\ count_words(split(lower(query)), lower(knowledge_texts[1])) = 2
    /\ count_words(split(lower(query)), lower(knowledge_texts[2])) = 1
    /\ answer.value = [msg |-> "Based on our knowledge base:", excerpt |-> doc_reset]

\* the example was run on an engine without embedding model
C20_Witness ==
  /\ TwoDocumentExample
  /\ ~embedding_model
  /\ answer.route = "fallback"
  /\ contains(lower(doc_billing), <<"i">>)
  /\ answer.value.excerpt = doc_reset

\* get_rag_response was called on an engine that has an embedding model and the
\* embeddings of its documents
EmbeddingReady == Asked /\ embedding_model /\ knowledge_texts # <<>>

\* C21 (as claimed): with an embedding model and one or more embedded documents,
\* get_rag_response answers by similarity: the text extracted from the document of
\* maximum cosine similarity when that similarity is above 0.3, else the fixed
\* nothing-relevant message; the keyword fallback answers only after a failure of the
\* embedding call.
C21_EmbeddingPathTaken ==
  (EmbeddingReady /\ embedding_backend # "raises") =>
    LET similarities == cosine_similarity(query, knowledge_texts)
        best         == argmax(similarities)
    IN  /\ answer.route = "embedding"
        /\ answer.value = (IF similarities[best] > 30
                             THEN _generate_response_from_doc(query, knowledge_texts[best])
                             ELSE MsgNothingRelevant)

\* what the keyword fallback gives for the query: the excerpt of the selected document
\* when it shares a token with the query, else the could-not-find message
IsFallbackResult(q, value) ==
  \A k \in 1..Len(knowledge_texts) :
    Selected(q, k) =>
      value = (IF Score(q, knowledge_texts[k]) > 0
                 THEN [msg |-> "Based on our knowledge base:", excerpt |-> FirstChars(knowledge_texts[k], 500)]
                 ELSE MsgNotFound)

\* C22: when something fails on the embedding path of get_rag_response (the test of
\* the stored embeddings, the embedding of the query, the similarity computation), the
\* caller gets the result of the keyword fallback and never the error.
C22_FailureFallsBack ==
  (EmbeddingReady /\ rag_try(query).raised) =>
    /\ ~answer.raised
    /\ answer.route = "except_fallback"
    /\ IsFallbackResult(query, answer.value)

\* an engine whose model cannot embed a query answered "how do I reset password" with
\* the excerpt of the reset document
C22_Witness ==
  /\ EmbeddingReady
  /\ embedding_backend = "raises"
  /\ query = q_how_do_I_reset_password
  /\ knowledge_texts = <<doc_billing, doc_reset>>
  /\ answer.value = [msg |-> "Based on our knowledge base:", excerpt |-> doc_reset]

\* the characters of the file names, in code point order
Alphabet == <<".", "a", "b", "c", "d", "e", "f", "g", "h", "i", "j", "k", "l", "m",
              "n", "o", "p", "q", "r", "s", "t", "u", "v", "w", "x", "y", "z">>

Ord(c) == CHOOSE k \in 1..Len(Alphabet) : Alphabet[k] = c

\* a < b for two file names
RECURSIVE NameBefore(_, _)
NameBefore(a, b) ==
  IF b = <<>> THEN FALSE
  ELSE IF a = <<>> THEN TRUE
  ELSE IF Head(a) = Head(b) THEN NameBefore(Tail(a), Tail(b))
  ELSE Ord(Head(a)) < Ord(Head(b))

\* the .txt files of a folder
TextFiles(folder) ==
  {folder.files[k] : k \in {l \in 1..Len(folder.files) : endswith(folder.files[l].name, ext_txt)}}

\* C23 (as claimed): the loaded documents are in the order of their file names, and
\* any listing of the same files loads the same sequence.
C23_SortedByFilename ==
  /\ \A f \in Folders :
        (f.exists /\ docs_folder.exists /\ TextFiles(f) = TextFiles(docs_folder)) =>
          _load_knowledge_base(f) = knowledge_texts
  /\ \A i, j \in 1..Len(knowledge_texts) :
        i < j =>
          \E a, b \in TextFiles(docs_folder) :
            /\ a.content = knowledge_texts[i]
            /\ b.content = knowledge_texts[j]
            /\ NameBefore(a.name, b.name)

\* the call of worker w has returned after _store_ticket persisted a Ticket
PersistedRun(w) == Returned(w) /\ ticket[w] # 0

\* the history entries that point to the Ticket persisted by the call of worker w
EntriesOf(w) == {i \in 1..Len(ticket_history) : ticket_history[i].ticket_id = ticket[w]}

\* C24 (as claimed): every run that persists a Ticket appends exactly one
\* ticket_history entry, with action "processed" and the internal id of the Ticket of
\* that run; the entry is appended when the dispatch path has finished, and entries
\* already in the table are never changed or removed.
C24_OneHistoryEntryPerRun ==
  /\ [](\A w \in Workers :
          PersistedRun(w) =>
            /\ logged[w] = 1
            /\ Cardinality(EntriesOf(w)) = 1
            /\ \A i \in EntriesOf(w) : ticket_history[i].action = "processed")
  /\ [][ /\ Len(ticket_history') >= Len(ticket_history)
         /\ SubSeq(ticket_history', 1, Len(ticket_history)) = ticket_history
         /\ ticket_history' # ticket_history =>
              \E w \in Workers : pc[w] = "history" /\ todo[w] = <<>> /\ pc'[w] = "done" ]_vars

\* the call of worker w was refused by the unique index on freshdesk_id
Duplicate(w) == Returned(w) /\ ~result[w].success /\ result[w].error = "IntegrityError"

\* C25: the helpdesk write requests for one external id all come from one run; a run
\* for an id that already has a Ticket fails in _store_ticket on the unique index,
\* returns success = false and sends no request.
C25_OneRunWritesPerExternalId ==
  /\ \A i, j \in 1..Len(requests) :
        requests[i].ticket_id = requests[j].ticket_id => requests[i].run = requests[j].run
  /\ \A w \in Workers :
        ( /\ Returned(w)
          /\ ticket_data[w] # None
          /\ \E k \in 1..Len(tickets) :
               /\ tickets[k].freshdesk_id = get(ticket_data[w], "id", 0)
               /\ tickets[k].id # ticket[w] ) =>
            /\ ~result[w].success
            /\ ticket[w] = 0
            /\ RunRequests(run[w]) = <<>>

\* an event was delivered again after its ticket had been stored and its notes sent
C25_Witness ==
  \E w \in Workers :
    /\ Duplicate(w)
    /\ entry[w] = "process_new_ticket"
    /\ RunRequests(run[w]) = <<>>
    /\ \E i \in 1..Len(requests) :
         /\ requests[i].ticket_id = get(ticket_data[w], "id", 0)
         /\ requests[i].run < run[w]

\* the status each dispatch path gives the stored Ticket
PathStatus(handler) ==
  CASE handler = "_handle_auto_resolvable_ticket" -> "resolved"
    [] handler = "_handle_escalation_ticket"      -> "escalated"
    [] handler = "_handle_tier_2_ticket"          -> "pending"

\* the handler of the call of worker w has ended
Dispatched(w) == Stored(w) /\ pc[w] \in {"history", "done"}

C27_StatusAgreesWithDisposition ==
  \A w \in Workers :
    (Succeeded(w) /\ ticket[w] # 0) =>
      /\ tickets[ticket[w]].auto_resolved => tickets[ticket[w]].status = "resolved"
      /\ tickets[ticket[w]].status # "open"

\* subject and description as process_new_ticket reads them from the payload of w
TextOf(w) ==
  [subject     |-> get(ticket_data[w], "subject", <<>>),
   description |-> get(ticket_data[w], "description", <<>>)]

\* the ticket of worker w has exactly one tier_1 keyword and no other tier keyword
OneTier1Keyword(w) ==
  tier1Count(TextOf(w)) = 1 /\ tier2Count(TextOf(w)) = 0 /\ complexCount(TextOf(w)) = 0

Escalating(w) == Stored(w) /\ ExpectedPath(ai_result[w]) = "_handle_escalation_ticket"

\* C29: on the escalation path every note is private, the formatted note of the
\* handler and the note of escalate_ticket alike, the notes are posted before the
\* priority is raised, and the call posts no public note and sets no helpdesk status;
\* when the handler has ended the requests are note, note, priority.
C29_EscalationNotesPrivate ==
  \A w \in Workers :
    Escalating(w) =>
      LET rs == RunRequests(run[w])
      IN  /\ \A i \in 1..Len(rs) :
               /\ ~IsNote(rs[i], FALSE)
               /\ ~IsStatusPut(rs[i])
               /\ IsNote(rs[i], TRUE) \/ IsEscalate(rs[i])
          /\ \A i, j \in 1..Len(rs) : (IsNote(rs[i], TRUE) /\ IsEscalate(rs[j])) => i < j
          /\ Dispatched(w) =>
               /\ Len(rs) = 3
               /\ IsNote(rs[1], TRUE) /\ "tier" \in DOMAIN rs[1].data.body
               /\ IsNote(rs[2], TRUE) /\ "text" \in DOMAIN rs[2].data.body
               /\ IsEscalate(rs[3])

\* an escalated call is over: two private notes went out, then the priority
C29_Witness ==
  \E w \in Workers :
    /\ Succeeded(w) /\ Escalating(w)
    /\ Len(RunRequests(run[w])) = 3
    /\ IsNote(RunRequests(run[w])[2], TRUE)
    /\ IsEscalate(RunRequests(run[w])[3])
    /\ tickets[ticket[w]].status = "escalated"

\* the request carries the configured secret in x-webhook-secret, or the HMAC-SHA256
\* of its body under the configured secret in the signature header
Authenticated(request) ==
  \/ request.headers["x-webhook-secret"] = Str(webhook_secret)
  \/ signature_header(request.headers) = hmac_sha256(webhook_secret, request.body)

WrongSecretHeader(request) ==
  /\ truthy(request.headers["x-webhook-secret"])
  /\ request.headers["x-webhook-secret"] # Str(webhook_secret)

WrongSignature(request) ==
  /\ ~truthy(request.headers["x-webhook-secret"])
  /\ truthy(signature_header(request.headers))
  /\ signature_header(request.headers) # hmac_sha256(webhook_secret, request.body)

NoCredentials(request) ==
  ~truthy(request.headers["x-webhook-secret"]) /\ ~truthy(signature_header(request.headers))

\* C30: with a webhook secret configured, a request with a wrong x-webhook-secret
\* header or with a signature that is not the HMAC-SHA256 of the body under the
\* configured secret is answered 401, a request with neither header is not accepted
\* for processing, and a ticket is added to the background tasks only by an
\* authenticated request.
C30_OnlyAuthenticatedEnqueued ==
  /\ []((webhook_secret # "" /\ webhook_request # None) =>
          /\ WrongSecretHeader(webhook_request) => webhook_response.status_code = 401
          /\ WrongSignature(webhook_request) => webhook_response.status_code = 401
          /\ NoCredentials(webhook_request) =>
               ~(webhook_response.status_code = 200 /\ webhook_response.status = "processing"))
  /\ [][(webhook_secret # "" /\ Len(background_tasks') > Len(background_tasks)) =>
          Authenticated(webhook_request')]_vars

====
